---- MODULE Spec2Model ----
(***************************************************************************)
(* A model of libcommons' FFI string (src/src/ffi/str.rs): the owned       *)
(* buffer FfiString (buf, len, capacity, drop), the heap it allocates      *)
(* from, and the stack string used by FfiString::push                      *)
(* (src/src/str/stack.rs).                                                 *)
(*                                                                         *)
(* A string is a sequence of bytes (0..255).  The heap is a sequence of    *)
(* allocation records; an address is an index into it and 0 is null.       *)
(***************************************************************************)
EXTENDS Integers, Sequences, FiniteSets, TLC

(***************************************************************************)
(* Bounds.                                                                 *)
(***************************************************************************)
\* width of usize in bits (scaled down from 64)
UsizeBits == 6
\* number of push_str/push calls in one behaviour
MaxOps == 3
\* largest argument of with_capacity
MaxCap == 3
\* largest spare capacity of a String handed to From<String>
MaxSlack == 1

UsizeRange == 2 ^ UsizeBits
UsizeMax == UsizeRange - 1
IsizeMax == (2 ^ (UsizeBits - 1)) - 1

\* Option::None of the checked arithmetic
None == -1
\* a byte of an allocation that was never written
Uninit == 256

(***************************************************************************)
(* Inputs.                                                                 *)
(***************************************************************************)
\* char::encode_utf8, as used by `format_args!("{char}")`
Utf8Encode(c) ==
    IF c < 128 THEN <<c>>
    ELSE IF c < 2048 THEN <<192 + (c \div 64), 128 + (c % 64)>>
    ELSE IF c < 65536 THEN
        <<224 + (c \div 4096), 128 + ((c \div 64) % 64), 128 + (c % 64)>>
    ELSE <<240 + (c \div 262144), 128 + ((c \div 4096) % 64),
           128 + ((c \div 64) % 64), 128 + (c % 64)>>

\* 'a', U+E9, U+20AC, U+1F600: one of each encoded length
CharInputs == {97, 233, 8364, 128512}

\* "", "a", "bc", "\u{e9}d"
StrInputs == {<<>>, <<97>>, <<98, 99>>, Utf8Encode(233) \o <<100>>}

\* the string of n bytes 'a'
Filler(n) == [i \in 1..n |-> 97]

RECURSIVE Concat(_)
Concat(ss) == IF ss = <<>> THEN <<>> ELSE Head(ss) \o Concat(Tail(ss))

(***************************************************************************)
(* usize arithmetic.                                                       *)
(***************************************************************************)
\* `a + b` on usize; both operands are at most isize::MAX wherever the
\* model evaluates it, so the debug-build overflow panic never fires
wrapping_add(a, b) == (a + b) % UsizeRange

RECURSIVE PowerOfTwoFrom(_, _)
PowerOfTwoFrom(p, x) == IF p >= x THEN p ELSE PowerOfTwoFrom(2 * p, x)

\* usize::checked_next_power_of_two
checked_next_power_of_two(x) ==
    LET p == PowerOfTwoFrom(1, x) IN IF p > UsizeMax THEN None ELSE p

\* a multiplication that wraps instead of reporting the overflow
wrapping_mul(x, y) == (x * y) % UsizeRange

\* usize::checked_mul
checked_mul(x, y) == IF x * y > UsizeMax THEN None ELSE x * y

\* push_str: the growth size, None when the computation overflows
NewSize(cap, olen) ==
    LET p == checked_next_power_of_two(wrapping_add(cap, olen))
    IN  IF p = None THEN None ELSE checked_mul(p, 2)

\* the test with < in place of <=
FitsInPlace_Strict(l, olen, cap) == wrapping_add(l, olen) < cap

\* push_str: the test for appending in place
FitsInPlace(l, olen, cap) == wrapping_add(l, olen) <= cap

(***************************************************************************)
(* The heap.                                                               *)
(***************************************************************************)
\* a fresh allocation of n bytes by this library's allocator; `owned` says
\* whether an FfiString has ever held it in `buf`, `dtor` and `fdtor` count
\* the calls of the library's and of the foreign destructor on it
Allocation(n, own) ==
    [size |-> n, bytes |-> [i \in 1..n |-> Uninit],
     dtor |-> 0, dealloc |-> 0, owned |-> own,
     allocator |-> "rust", fdtor |-> 0]

\* String::with_capacity(n) for 0 < n <= isize::MAX: one allocation of
\* exactly n bytes, appended to the heap; its address is Len(h) + 1
String_with_capacity(h, n, own) == Append(h, Allocation(n, own))

\* dst[from .. from + Len(src)).copy_from_slice(src) inside allocation b
WriteBytes(h, b, from, src) ==
    [h EXCEPT ![b].bytes =
        [i \in 1..Len(@) |->
            IF i > from /\ i <= from + Len(src) THEN src[i - from] ELSE @[i]]]

\* the destructor of a buffer allocated by this library: it rebuilds the
\* String from (buf, len, capacity) and drops it
libcommons_rust_drop(h, b) ==
    [h EXCEPT ![b].dtor = @ + 1, ![b].dealloc = @ + 1]

\* the destructor supplied with a buffer made on the other side of the
\* boundary: it frees the storage with that side's allocator
foreign_drop(h, b) ==
    [h EXCEPT ![b].fdtor = @ + 1, ![b].dealloc = @ + 1]

\* an unwinding that forgets the String instead of dropping it
String_drop_Leak(h, b) == h

\* drop of a String that is not inside an FfiString (unwinding)
String_drop(h, b) == [h EXCEPT ![b].dealloc = @ + 1]

(***************************************************************************)
(* The stack string StackString<CAPACITY> used by FfiString::push.         *)
(***************************************************************************)
\* the CAPACITY of the StackString::<4> in FfiString::push
StackCapacity == 4

Min(a, b) == IF a < b THEN a ELSE b

StackString_new == [buf |-> [i \in 1..StackCapacity |-> 0], len |-> 0]

\* a write that leaves the last byte of the buffer unused
Writer_write_Short(ss, b) ==
    LET n == Min(Len(b), StackCapacity - 1 - ss.len)
    IN  [str |-> [buf |-> [i \in 1..StackCapacity |->
                              IF i > ss.len /\ i <= ss.len + n
                              THEN b[i - ss.len] ELSE ss.buf[i]],
                  len |-> ss.len + n],
         n |-> n]

\* Writer::write: copies as much of b as fits and returns the count
Writer_write(ss, b) ==
    LET n == Min(Len(b), StackCapacity - ss.len)
    IN  [str |-> [buf |-> [i \in 1..StackCapacity |->
                              IF i > ss.len /\ i <= ss.len + n
                              THEN b[i - ss.len] ELSE ss.buf[i]],
                  len |-> ss.len + n],
         n |-> n]

\* std::io::Write::write_all over Writer::write: a write of 0 bytes is
\* the error WriteZero
RECURSIVE Writer_write_all(_, _)
Writer_write_all(ss, b) ==
    IF b = <<>> THEN [ok |-> TRUE, str |-> ss]
    ELSE LET w == Writer_write(ss, b)
         IN  IF w.n = 0 THEN [ok |-> FALSE, str |-> w.str]
             ELSE Writer_write_all(w.str, SubSeq(b, w.n + 1, Len(b)))

\* a write_fmt that leaves the length where the failed write left it
StackString_write_fmt_NoRevert(ss, b) == Writer_write_all(ss, b)

\* StackString::write_fmt of bytes already formatted: on error the length
\* is put back to what it was
StackString_write_fmt(ss, b) ==
    LET r == Writer_write_all(ss, b)
    IN  IF r.ok THEN r
        ELSE [ok |-> FALSE, str |-> [r.str EXCEPT !.len = ss.len]]

StackString_push(ss, c) == StackString_write_fmt(ss, Utf8Encode(c))

\* StackString::push_str: write_all of the bytes of the str, and on error
\* the length is put back to what it was
StackString_push_str(ss, b) ==
    IF Writer_write_all(ss, b).ok THEN Writer_write_all(ss, b)
    ELSE [ok |-> FALSE,
          str |-> [Writer_write_all(ss, b).str EXCEPT !.len = ss.len]]

StackString_as_bytes(ss) == SubSeq(ss.buf, 1, ss.len)

(***************************************************************************)
(* FfiString: constructors.  A buffer value is a record of the four        *)
(* fields together with the heap it lives in.                              *)
(***************************************************************************)
DropNone == "None"
DropRust == "libcommons_rust_drop"
DropForeign == "foreign_drop"

\* `drop(self)`: the call through the function pointer in the drop field
CallDrop(d, h, b) ==
    IF d = DropRust THEN libcommons_rust_drop(h, b) ELSE foreign_drop(h, b)

\* a buffer received from the boundary: storage of cap > 0 bytes from the
\* foreign allocator holding s, with the foreign destructor attached
ForeignBuffer(s, cap) ==
    [buf |-> 1, len |-> Len(s), capacity |-> cap, drop |-> DropForeign,
     heap |-> WriteBytes(<<[Allocation(cap, TRUE) EXCEPT
                              !.allocator = "foreign"]>>, 1, 0, s)]

\* a constructor that allocates one byte up front
FfiString_new_Allocating ==
    [buf |-> 1, len |-> 0, capacity |-> 1, drop |-> DropRust,
     heap |-> <<Allocation(1, TRUE)>>]

FfiString_new ==
    [buf |-> 0, len |-> 0, capacity |-> 0, drop |-> DropNone, heap |-> <<>>]

\* with_capacity without the early return for 0
FfiString_with_capacity_NoZeroCheck(n) ==
    LET h == String_with_capacity(<<>>, n, TRUE)
    IN  [buf |-> Len(h), len |-> 0, capacity |-> h[Len(h)].size,
         drop |-> DropRust, heap |-> h]

FfiString_with_capacity(n) ==
    IF n = 0 THEN FfiString_new
    ELSE LET h == String_with_capacity(<<>>, n, TRUE)
         IN  [buf |-> Len(h), len |-> 0, capacity |-> h[Len(h)].size,
              drop |-> DropRust, heap |-> h]

\* a String with contents s and capacity cap >= Len(s); capacity 0 means
\* no allocation (ptr 0 stands for the dangling pointer)
MakeString(s, cap) ==
    IF cap = 0 THEN [ptr |-> 0, len |-> 0, capacity |-> 0, heap |-> <<>>]
    ELSE [ptr |-> 1, len |-> Len(s), capacity |-> cap,
          heap |-> WriteBytes(<<Allocation(cap, FALSE)>>, 1, 0, s)]

\* String::from that allocates a byte for the empty str
String_from_MinCapacity(s) == MakeString(s, IF Len(s) = 0 THEN 1 ELSE Len(s))

\* String::from(&str): capacity is exactly the length
String_from(s) == MakeString(s, Len(s))

\* From<String> that attaches the destructor whatever the capacity
From_String_AlwaysDrop(string) ==
    [buf |-> IF string.capacity = 0 THEN 0 ELSE string.ptr,
     len |-> string.len,
     capacity |-> string.capacity,
     drop |-> DropRust,
     heap |-> [i \in 1..Len(string.heap) |->
                  [string.heap[i] EXCEPT !.owned = (string.capacity # 0)]]]

\* impl From<String> for FfiString
From_String(string) ==
    [buf |-> IF string.capacity = 0 THEN 0 ELSE string.ptr,
     len |-> string.len,
     capacity |-> string.capacity,
     drop |-> IF string.capacity # 0 THEN DropRust ELSE DropNone,
     heap |-> [i \in 1..Len(string.heap) |->
                  [string.heap[i] EXCEPT !.owned = (string.capacity # 0)]]]

\* impl From<&str> for FfiString
From_str(s) == From_String(String_from(s))

(***************************************************************************)
(* FfiString: accessors (on a buffer value).                               *)
(***************************************************************************)
as_bytes(st) ==
    IF st.buf = 0 THEN <<>> ELSE SubSeq(st.heap[st.buf].bytes, 1, st.len)

is_empty(st) == st.len = 0

\* the bytes of as_str / as_ffi_str when the call returns
as_str(st) ==
    IF st.buf = 0 THEN <<>> ELSE SubSeq(st.heap[st.buf].bytes, 1, st.len)

\* as_str and as_ffi_str call slice::from_raw_parts(buf, len) without
\* testing buf: with a null buf that is undefined behaviour, which a build
\* turns into either the empty string or an abort (unsafe-precondition check)
RawPartsOutcomes(st) == IF st.buf = 0 THEN {"ok", "abort"} ELSE {"ok"}

(***************************************************************************)
(* FfiStr (the borrowed view) and FfiStrPtr (the wide pointer).  A view   *)
(* and a str are an address and a length; a wide pointer is buf and len.   *)
(***************************************************************************)
\* a non-null address that points at no allocation
Dangling == 0 - 1

\* the bytes a view or a str (addr, len) refers to in heap h
ViewBytes(h, v) ==
    IF v.len = 0 \/ v.addr \notin 1..Len(h) THEN <<>>
    ELSE SubSeq(h[v.addr].bytes, 1, v.len)

\* memory that holds the str s a view is made from; it belongs to no
\* FfiString
StrMemory(s) ==
    WriteBytes(<<[Allocation(Len(s), FALSE) EXCEPT !.allocator = "static"]>>,
               1, 0, s)

\* FfiStr::from_str: the view of the str at addr with n bytes
FfiStr_from_str(addr, n) == [addr |-> addr, len |-> n]

\* FfiStr::as_str / as_bytes
FfiStr_as_str(h, v) == ViewBytes(h, v)

\* as_ptr that loses the length
FfiStr_as_ptr_NoLen(v) == [buf |-> v.addr, len |-> 0]

\* FfiStr::as_ptr
FfiStr_as_ptr(v) == [buf |-> v.addr, len |-> v.len]

\* slice::from_raw_parts(data, n): a null data is undefined behaviour, which
\* a build turns into a slice or an abort
FromRawPartsOutcomes(data) == IF data = 0 THEN {"ok", "abort"} ELSE {"ok"}

\* FfiStr::from_raw_parts, as called by From<FfiStrPtr> for &FfiStr: the
\* view and the slice::from_raw_parts calls it made
FfiStr_from_raw_parts(data, n) ==
    [view |-> [addr |-> data, len |-> n],
     raw |-> {[data |-> data, len |-> n]}]

\* FfiStrPtr::len
FfiStrPtr_len(p) == p.len

\* FfiStrPtr::is_empty
FfiStrPtr_is_empty(p) == p.len = 0

\* FfiStrPtr::as_str: the str returned and the slice::from_raw_parts calls
\* made; the literal "" is a str of length 0
FfiStrPtr_as_str(p) ==
    IF FfiStrPtr_is_empty(p)
    THEN [str |-> [addr |-> p.buf, len |-> p.len],
          raw |-> {[data |-> p.buf, len |-> p.len]}]
    ELSE [str |-> [addr |-> Dangling, len |-> 0], raw |-> {}]

\* a buffer value made on its own, placed after the allocations of h
Place(h, st) ==
    [st EXCEPT !.buf = IF @ = 0 THEN 0 ELSE @ + Len(h), !.heap = h \o @]

\* a conversion that keeps pointing at the view's memory
From_FfiStr_Borrowing(h, v) ==
    [buf |-> v.addr, len |-> v.len, capacity |-> v.len, drop |-> DropNone,
     heap |-> h]

\* impl From<&FfiStr> for FfiString (to_ffi_string, to_owned)
From_FfiStr(h, v) == Place(h, From_str(FfiStr_as_str(h, v)))

\* impl From<FfiStrPtr> / From<&FfiStrPtr> for FfiString
\* (FfiStrPtr::to_ffi_string)
From_FfiStrPtr(h, p) == Place(h, From_str(ViewBytes(h, FfiStrPtr_as_str(p).str)))

NoPtr == [buf |-> 0, len |-> 0, from |-> "none"]
NoRet == [kind |-> "none", addr |-> 0, len |-> 0]
NoFfi == [view |-> [addr |-> 0, len |-> 0], ptr |-> NoPtr, ret |-> NoRet,
          raw |-> {}]

(***************************************************************************)
(* FfiString::push_str.                                                    *)
(***************************************************************************)
\* slice[a..b] on a slice of length n is in range
SliceIndexOk(n, a, b) == a <= b /\ b <= n

\* push_str: the range of the new string that receives the appended bytes
TailRange(l, olen) == <<l, olen>>

\* growing without releasing the old storage
DropOld_Leak(h, b, d) == h

\* releasing the old storage with the library's destructor, whichever
\* destructor is attached
DropOld_AlwaysRust(h, b, d) ==
    IF b # 0 /\ d # DropNone THEN libcommons_rust_drop(h, b) ELSE h

\* push_str: release of the storage held before growing
DropOld(h, b, d) == IF b # 0 /\ d # DropNone THEN CallDrop(d, h, b) ELSE h

Panicked(st, h, why, where) ==
    [buf |-> st.buf, len |-> st.len, capacity |-> st.capacity, drop |-> st.drop,
     heap |-> h, result |-> "panic", reason |-> why, path |-> where]

Returned(b, l, c, d, h, where) ==
    [buf |-> b, len |-> l, capacity |-> c, drop |-> d,
     heap |-> h, result |-> "ok", reason |-> "none", path |-> where]

\* appending in place without copying the bytes
PushInPlace_NoCopy(st, s) ==
    Returned(st.buf, wrapping_add(st.len, Len(s)), st.capacity, st.drop,
             st.heap, "inplace")

\* the branch that copies into the existing allocation
PushInPlace(st, s) ==
    LET olen == Len(s)
    IN  IF ~(SliceIndexOk(st.capacity, st.len, st.capacity)
             /\ SliceIndexOk(st.capacity - st.len, 0, olen))
        THEN Panicked(st, st.heap, "slice", "inplace")
        ELSE Returned(st.buf, wrapping_add(st.len, olen), st.capacity, st.drop,
                      WriteBytes(st.heap, st.buf, st.len, s), "inplace")

\* the replacement that keeps the old capacity
Replaced_StaleCapacity(st, new, olen, h) ==
    Returned(new, wrapping_add(st.len, olen), st.capacity, DropRust,
             [h EXCEPT ![new].owned = TRUE], "grow")

\* push_str: the fields take the values of the new allocation
Replaced(st, new, olen, h) ==
    Returned(new, wrapping_add(st.len, olen), h[new].size, DropRust,
             [h EXCEPT ![new].owned = TRUE], "grow")

\* the branch that reallocates
PushGrow(st, s) ==
    LET olen == Len(s)
        newsize == NewSize(st.capacity, olen)
    IN  IF newsize = None THEN Panicked(st, st.heap, "too_long", "grow")
        ELSE IF newsize > IsizeMax
        THEN Panicked(st, st.heap, "capacity_overflow", "grow")
        ELSE
        LET h1 == String_with_capacity(st.heap, newsize, FALSE)
            new == Len(h1)
            \* the length given to the new String
            nlen == wrapping_add(st.len, olen)
            h2 == IF st.buf # 0 THEN WriteBytes(h1, new, 0, as_bytes(st)) ELSE h1
            r == TailRange(st.len, olen)
        IN  IF ~(SliceIndexOk(nlen, r[1], r[2]) /\ r[2] - r[1] = olen)
            \* the panic unwinds through the new String, which frees it
            THEN Panicked(st, String_drop(h2, new), "slice", "grow")
            ELSE
            LET h3 == WriteBytes(h2, new, r[1], s)
                h4 == DropOld(h3, st.buf, st.drop)
            IN  Replaced(st, new, olen, h4)

push_str(st, s) ==
    IF s = <<>>
    THEN Returned(st.buf, st.len, st.capacity, st.drop, st.heap, "empty")
    ELSE IF FitsInPlace(st.len, Len(s), st.capacity) THEN PushInPlace(st, s)
    ELSE PushGrow(st, s)

\* FfiString::push
push(st, c) ==
    LET w == StackString_push(StackString_new, c)
    IN  IF ~w.ok THEN Panicked(st, st.heap, "unwrap", "none")
        ELSE push_str(st, StackString_as_bytes(w.str))

\* impl Drop for FfiString
FfiString_drop(h, b, d) ==
    IF b # 0 /\ d # DropNone THEN CallDrop(d, h, b) ELSE h

(***************************************************************************)
(* Readers (src/src/io.rs).  An inner reader is a script of tokens: a byte *)
(* value, ErrTok (the call returns an error and the reader goes on          *)
(* afterwards, like WouldBlock) or EofTok (the call returns 0 and the       *)
(* reader goes on afterwards).  Past the end of the script every call       *)
(* returns 0.  A call delivers at most `chunk` bytes.                       *)
(***************************************************************************)
ErrTok == 0 - 1
EofTok == 0 - 2

\* the ErrorKind::UnexpectedEof error made by resume and read_exact; the
\* errors of the inner reader are numbered from 1 by their place in the script
UnexpectedEof == 0

NewReader(script, chunk) ==
    [script |-> script, pos |-> 0, chunk |-> chunk, polls |-> 0,
     raised |-> <<>>]

\* the number of byte tokens of the script from index i on, up to the next
\* token that is not a byte
RECURSIVE Run(_, _)
Run(script, i) ==
    IF i > Len(script) \/ script[i] < 0 THEN 0 ELSE 1 + Run(script, i + 1)

\* Read::read of the inner reader with a destination of n bytes.  polls is
\* the parity of the number of calls made, raised the errors returned so far
Reader_read(r, n) ==
    LET polled == [r EXCEPT !.polls = 1 - @]
        k == Min(Min(n, r.chunk), Run(r.script, r.pos + 1))
    IN  IF n = 0 \/ r.pos >= Len(r.script)
        THEN [read |-> polled, kind |-> "ok", bytes |-> <<>>, err |-> None]
        ELSE IF r.script[r.pos + 1] = ErrTok
        THEN [read |-> [polled EXCEPT !.pos = @ + 1,
                                      !.raised = Append(@, r.pos + 1)],
              kind |-> "err", bytes |-> <<>>, err |-> r.pos + 1]
        ELSE IF r.script[r.pos + 1] = EofTok
        THEN [read |-> [polled EXCEPT !.pos = @ + 1],
              kind |-> "ok", bytes |-> <<>>, err |-> None]
        ELSE [read |-> [polled EXCEPT !.pos = @ + k],
              kind |-> "ok", bytes |-> SubSeq(r.script, r.pos + 1, r.pos + k),
              err |-> None]

(***************************************************************************)
(* PreRead<LEN, R> for LEN > 0: buffer, len, error, read.                  *)
(***************************************************************************)
\* the struct PreRead::new starts from
PreRead_init(LEN, read) ==
    [LEN |-> LEN, buffer |-> [i \in 1..LEN |-> 0], len |-> 0, error |-> None,
     read |-> read]

\* buffer[at..][..bytes.len()] = bytes
Store(buffer, at, bytes) ==
    [i \in 1..Len(buffer) |->
        IF i > at /\ i <= at + Len(bytes) THEN bytes[i - at] ELSE buffer[i]]

\* one iteration of the loop of PreRead::new: Ok(len) adds len, whatever it
\* is, and the loop goes on; Err(why) is kept and ends the loop
PreRead_new_step(p) ==
    LET r == Reader_read(p.read, p.LEN - p.len)
    IN  IF r.kind = "err"
        THEN [p |-> [p EXCEPT !.read = r.read, !.error = r.err],
              break |-> TRUE]
        ELSE [p |-> [p EXCEPT !.read = r.read,
                              !.buffer = Store(@, p.len, r.bytes),
                              !.len = @ + Len(r.bytes)],
              break |-> FALSE]

\* a refill that writes from the start of the buffer, over the bytes it holds
RECURSIVE Refill_Restart(_)
Refill_Restart(p) ==
    IF p.len >= p.LEN THEN [p |-> p, calls |-> 0, zero |-> FALSE]
    ELSE LET r == Reader_read(p.read, p.LEN - p.len)
         IN  IF r.kind = "err"
             THEN [p |-> [p EXCEPT !.read = r.read, !.error = r.err],
                   calls |-> 1, zero |-> FALSE]
             ELSE IF r.bytes = <<>>
             THEN [p |-> [p EXCEPT !.read = r.read], calls |-> 1,
                   zero |-> TRUE]
             ELSE [p |-> [p EXCEPT !.read = r.read,
                                   !.buffer = Store(@, 0, r.bytes),
                                   !.len = Len(r.bytes)],
                   calls |-> 1, zero |-> FALSE]

\* the refill loop of flush_error, read and read_exact:
\*   while self.len < LEN { match self.read.read(&mut self.buffer[self.len..])
\*     { Ok(0) => break, Ok(n) => self.len += n,
\*       Err(why) => { self.error = Some(why); break } } }
\* calls is the number of calls of the inner reader, zero whether it
\* returned 0
RECURSIVE Refill(_)
Refill(p) ==
    IF p.len >= p.LEN THEN [p |-> p, calls |-> 0, zero |-> FALSE]
    ELSE LET r == Reader_read(p.read, p.LEN - p.len)
         IN  IF r.kind = "err"
             THEN [p |-> [p EXCEPT !.read = r.read, !.error = r.err],
                   calls |-> 1, zero |-> FALSE]
             ELSE IF r.bytes = <<>>
             THEN [p |-> [p EXCEPT !.read = r.read], calls |-> 1,
                   zero |-> TRUE]
             ELSE LET f == Refill([p EXCEPT !.read = r.read,
                                            !.buffer = Store(@, p.len, r.bytes),
                                            !.len = @ + Len(r.bytes)])
                  IN  [f EXCEPT !.calls = @ + 1]

\* what a call returns: the struct after it, Ok or Err, the bytes put in
\* the destination, the error, and what Refill reports
Ret(p, kind, bytes, err, calls, zero) ==
    [p |-> p, kind |-> kind, bytes |-> bytes, err |-> err, calls |-> calls,
     zero |-> zero]

\* PreRead::flush_error
PreRead_flush_error(p) ==
    IF p.error = None THEN Ret(p, "ok", <<>>, None, 0, FALSE)
    ELSE LET f == Refill([p EXCEPT !.error = None])
         IN  Ret(f.p, "err", <<>>, p.error, f.calls, f.zero)

\* buffer.copy_within(n.., 0)
CopyWithin(buffer, n) ==
    [i \in 1..Len(buffer) |->
        IF i + n <= Len(buffer) THEN buffer[i + n] ELSE buffer[i]]

\* read: let fetch = self.len == LEN || error.is_some()
Fetch(p) == p.len = p.LEN \/ p.error # None

\* <PreRead as Read>::read with a destination of n bytes
PreRead_read(p, n) ==
    IF p.len = 0 \/ n = 0
    THEN IF p.error # None
         THEN LET f == Refill([p EXCEPT !.error = None])
              IN  Ret(f.p, "err", <<>>, p.error, f.calls, f.zero)
         ELSE Ret(p, "ok", <<>>, None, 0, FALSE)
    ELSE LET copy_len == Min(n, p.len)
             q == [p EXCEPT !.len = @ - copy_len,
                            !.buffer = IF copy_len # p.LEN
                                       THEN CopyWithin(@, copy_len) ELSE @]
             f == IF Fetch(p) THEN Refill(q)
                  ELSE [p |-> q, calls |-> 0, zero |-> FALSE]
         IN  Ret(f.p, "ok", SubSeq(p.buffer, 1, copy_len), None, f.calls,
                 f.zero)

\* the loop of read_exact for a destination that still needs n bytes:
\* read's error is returned, a read of 0 bytes is UnexpectedEof
RECURSIVE ReadExactLoop(_, _)
ReadExactLoop(p, n) ==
    IF n = 0 THEN Ret(p, "ok", <<>>, None, 0, FALSE)
    ELSE LET r == PreRead_read(p, n)
         IN  IF r.kind = "err" THEN r
             ELSE IF r.bytes = <<>>
             THEN Ret(r.p, "err", <<>>, UnexpectedEof, r.calls, r.zero)
             ELSE LET x == ReadExactLoop(r.p, n - Len(r.bytes))
                  IN  [x EXCEPT !.bytes = r.bytes \o @,
                                !.calls = @ + r.calls,
                                !.zero = @ \/ r.zero]

\* <PreRead as Read>::read_exact with a destination of n bytes
PreRead_read_exact(p, n) ==
    IF n = 0
    THEN IF p.error # None
         THEN LET f == Refill([p EXCEPT !.error = None])
              IN  Ret(f.p, "err", <<>>, p.error, f.calls, f.zero)
         ELSE Ret(p, "ok", <<>>, None, 0, FALSE)
    ELSE ReadExactLoop(p, n)

\* the loop of PreRead::resume
RECURSIVE ResumeLoop(_)
ResumeLoop(p) ==
    IF p.len >= p.LEN THEN Ret(p, "ok", <<>>, None, 0, FALSE)
    ELSE LET r == Reader_read(p.read, p.LEN - p.len)
             q == [p EXCEPT !.read = r.read]
         IN  IF r.kind = "err"
             THEN IF p.len = 0 THEN Ret(q, "err", <<>>, r.err, 1, FALSE)
                  ELSE Ret([q EXCEPT !.error = r.err], "ok", <<>>, None, 1,
                           FALSE)
             ELSE IF r.bytes = <<>>
             THEN IF p.len = 0 THEN Ret(q, "err", <<>>, UnexpectedEof, 1, TRUE)
                  ELSE Ret(q, "ok", <<>>, None, 1, TRUE)
             ELSE LET x == ResumeLoop([q EXCEPT
                                         !.buffer = Store(@, p.len, r.bytes),
                                         !.len = @ + Len(r.bytes)])
                  IN  [x EXCEPT !.calls = @ + 1]

\* PreRead::resume: self.flush_error()? and then the loop
PreRead_resume(p) ==
    LET f == PreRead_flush_error(p)
    IN  IF f.kind = "err" THEN f
        ELSE ResumeLoop(f.p)

(***************************************************************************)
(* Utf8<R> (src/src/str/utf8.rs): an iterator of chars over a reader,      *)
(* which is a PreRead ("pre") or a bare reader ("raw").                    *)
(***************************************************************************)
\* char::REPLACEMENT_CHARACTER, U+FFFD
REPLACEMENT_CHARACTER == 65533

\* the result of a read of either reader, in one shape
FromPre(r) == [s |-> r.p, kind |-> r.kind, bytes |-> r.bytes, err |-> r.err]
FromRaw(r) == [s |-> r.read, kind |-> r.kind, bytes |-> r.bytes, err |-> r.err]

\* self.0.read(&mut buf[..n])
Utf8_read(kind, s, n) ==
    IF kind = "pre" THEN FromPre(PreRead_read(s, n))
    ELSE FromRaw(Reader_read(s, n))

\* u8::leading_ones
leading_ones(b) ==
    IF b < 128 THEN 0
    ELSE IF b < 192 THEN 1
    ELSE IF b < 224 THEN 2
    ELSE IF b < 240 THEN 3
    ELSE IF b < 248 THEN 4
    ELSE IF b < 252 THEN 5
    ELSE IF b < 254 THEN 6
    ELSE IF b < 255 THEN 7
    ELSE 8

\* a mask that keeps six bits of the first byte whatever the length
LeadMask_SixBits(n) == 64

\* char1 as u32 & (0b00111111 >> len), as a modulus
LeadMask(n) == IF n = 1 THEN 32 ELSE IF n = 2 THEN 16 ELSE 8

\* the loop over the continuation bytes: -1 for a byte that is not one,
\* else final_char << 6 | (v & 0b00111111); final_char starts below 2^5 and
\* is shifted at most three times, so the u32 never overflows
RECURSIVE Continue(_, _)
Continue(final_char, bytes) ==
    IF bytes = <<>> THEN final_char
    ELSE IF Head(bytes) \div 64 # 2 THEN 0 - 1
    ELSE Continue(final_char * 64 + (Head(bytes) % 64), Tail(bytes))

\* char::from_u32(x).unwrap_or(char::REPLACEMENT_CHARACTER)
from_u32(x) ==
    IF x > 1114111 \/ (x >= 55296 /\ x <= 57343) THEN REPLACEMENT_CHARACTER
    ELSE x

\* an item of the iterator: None, Some(Ok(char)) or Some(Err(err))
Item(s, tag, v) == [s |-> s, item |-> [tag |-> tag, v |-> v]]

\* next after the second read returned r2: the char of the first byte
\* char1 and its len continuation bytes
Utf8_decode(char1, n, r2) ==
    IF r2.kind = "err" THEN Item(r2.s, "err", r2.err)
    ELSE IF r2.bytes = <<>> THEN Item(r2.s, "none", 0)
    ELSE IF Len(r2.bytes) # n THEN Item(r2.s, "ok", REPLACEMENT_CHARACTER)
    ELSE IF Continue(char1 % LeadMask(n), r2.bytes) < 0
    THEN Item(r2.s, "ok", REPLACEMENT_CHARACTER)
    ELSE Item(r2.s, "ok", from_u32(Continue(char1 % LeadMask(n), r2.bytes)))

\* next after the first read returned r1
Utf8_first(kind, r1) ==
    IF r1.kind = "err" THEN Item(r1.s, "err", r1.err)
    ELSE IF r1.bytes = <<>> THEN Item(r1.s, "none", 0)
    ELSE IF r1.bytes[1] < 128 THEN Item(r1.s, "ok", r1.bytes[1])
    ELSE IF leading_ones(r1.bytes[1]) \notin 2..4
    THEN Item(r1.s, "ok", REPLACEMENT_CHARACTER)
    ELSE Utf8_decode(r1.bytes[1], leading_ones(r1.bytes[1]) - 1,
                     Utf8_read(kind, r1.s, leading_ones(r1.bytes[1]) - 1))

\* <Utf8 as Iterator>::next
Utf8_next(kind, s) == Utf8_first(kind, Utf8_read(kind, s, 1))

(***************************************************************************)
(* ReadExt::pipe and pipe_with (src/src/io.rs): the locals are buf, len,  *)
(* reader (TRUE for Some) and, in pipe_with, download.                     *)
(***************************************************************************)
\* the locals at the start of the call
pipe_init(BUF, with) ==
    [BUF |-> BUF, buf |-> [i \in 1..BUF |-> 0], len |-> 0, reader |-> TRUE,
     download |-> 0, with |-> with]

\* a writer that accepts, in its k-th call, at most limits[k] of the bytes
\* offered, and all of them once limits is used up
NewWriter(limits) == [limits |-> limits, got |-> <<>>]

\* write.write(bytes): the count accepted and the writer afterwards
Writer_accepts(w, bytes) ==
    IF w.limits = <<>> THEN Len(bytes) ELSE Min(Head(w.limits), Len(bytes))

W_write(w, bytes) ==
    [n |-> Writer_accepts(w, bytes),
     write |-> [limits |-> IF w.limits = <<>> THEN <<>> ELSE Tail(w.limits),
                got |-> w.got \o SubSeq(bytes, 1, Writer_accepts(w, bytes))]]

\* the first half of an iteration, after x.read(&mut buf[len..]) returned r:
\*   match x.read(&mut buf[len..])? { 0 => drop(reader.take()), l => len += l }
pipe_filled(p, r) ==
    IF r.kind = "err"
    THEN [p |-> p, src |-> r.read, kind |-> "err", err |-> r.err]
    ELSE IF r.bytes = <<>>
    THEN [p |-> [p EXCEPT !.reader = FALSE], src |-> r.read, kind |-> "ok",
          err |-> None]
    ELSE [p |-> [p EXCEPT !.buf = Store(@, p.len, r.bytes),
                          !.len = @ + Len(r.bytes)],
          src |-> r.read, kind |-> "ok", err |-> None]

\* if len < buf.len() { if let Some(x) = &mut reader { ... } }
pipe_fill(p, s) ==
    IF p.len < p.BUF /\ p.reader
    THEN pipe_filled(p, Reader_read(s, p.BUF - p.len))
    ELSE [p |-> p, src |-> s, kind |-> "ok", err |-> None]

\* the second half, after write.write(&buf[..len]) returned o:
\*   0 => return Err(UnexpectedEof), l => len -= l
\* (pipe_with also adds l to download and calls cb); buf is left as it is
pipe_wrote(p, o) ==
    IF o.n = 0
    THEN [p |-> p, write |-> o.write, kind |-> "err", err |-> UnexpectedEof]
    ELSE [p |-> [p EXCEPT !.len = @ - o.n,
                          !.download = IF p.with THEN @ + o.n ELSE @],
          write |-> o.write, kind |-> "ok", err |-> None]

\* if len > 0 { match write.write(&buf[..len])? { ... } }
pipe_drain(p, w) ==
    IF p.len > 0
    THEN pipe_wrote(p, W_write(w, SubSeq(p.buf, 1, p.len)))
    ELSE [p |-> p, write |-> w, kind |-> "ok", err |-> None]

(***************************************************************************)
(* PreIter<LEN, I> (src/src/iter.rs): buf, len, iter. An item is a         *)
(* positive number, NoItem is Option::None, Uninit is a slot of buf that   *)
(* holds no item (MaybeUninit::uninit()).                                  *)
(***************************************************************************)
NoItem == 0

\* an inner iterator that returns the tokens of its script in turn, a
\* NoItem token being a None that later items may follow, and None for ever
\* at the end of the script
NewIter(script) == [script |-> script, pos |-> 0]

\* self.iter.next()
I_next(i) ==
    IF i.pos >= Len(i.script) THEN [iter |-> i, item |-> NoItem]
    ELSE [iter |-> [i EXCEPT !.pos = @ + 1], item |-> i.script[i.pos + 1]]

\* the body of `for i in 0..LEN` in PreIter::new, inner next having given r
RECURSIVE PreIter_prefetch(_, _)
PreIter_prefetched(it, i, r) ==
    IF r.item = NoItem THEN [it EXCEPT !.iter = r.iter]
    ELSE PreIter_prefetch([it EXCEPT !.iter = r.iter,
                                     !.buf[i + 1] = r.item,
                                     !.len = @ + 1], i + 1)

PreIter_prefetch(it, i) ==
    IF i >= it.LEN THEN it
    ELSE PreIter_prefetched(it, i, I_next(it.iter))

\* PreIter::new
PreIter_new(LEN, i) ==
    PreIter_prefetch([LEN |-> LEN, buf |-> [k \in 1..LEN |-> Uninit],
                      len |-> 0, iter |-> i], 0)

\* a next that fetches whatever the buffer holds
PreIter_fetch_Always(it) == TRUE

\* let fetch = self.len == LEN;
PreIter_fetch(it) == it.len = it.LEN

\* the item taken from buf[0], the other slots moved down by the swaps, and
\* len -= 1
PreIter_take(it) ==
    [it EXCEPT !.buf = Tail(@) \o <<Uninit>>, !.len = @ - 1]

\* if let Some(x) = self.iter.next() { self.buf.last_mut().unwrap().write(x);
\* self.len += 1 }, inner next having given r
PreIter_fetched(it, item, r) ==
    [it |-> IF r.item = NoItem THEN [it EXCEPT !.iter = r.iter]
            ELSE [it EXCEPT !.iter = r.iter, !.buf[it.LEN] = r.item,
                            !.len = @ + 1],
     item |-> item, called |-> TRUE, none |-> r.item = NoItem]

\* LEN == 0: return self.iter.next(), inner next having given r
PreIter_passed(it, r) ==
    [it |-> [it EXCEPT !.iter = r.iter], item |-> r.item, called |-> TRUE,
     none |-> r.item = NoItem]

\* <PreIter as Iterator>::next: the struct afterwards, the item returned,
\* whether the inner next was called and whether it returned None
PreIter_next(it) ==
    IF it.LEN = 0 THEN PreIter_passed(it, I_next(it.iter))
    ELSE IF it.len = 0
    THEN [it |-> it, item |-> NoItem, called |-> FALSE, none |-> FALSE]
    ELSE IF PreIter_fetch(it)
    THEN PreIter_fetched(PreIter_take(it), it.buf[1], I_next(it.iter))
    ELSE [it |-> PreIter_take(it), item |-> it.buf[1], called |-> FALSE,
          none |-> FALSE]

(***************************************************************************)
(* The state: one FfiString and the heap.                                  *)
(***************************************************************************)
VARIABLES
    buf,        \* FfiString.buf: an address, 0 is null
    len,        \* FfiString.len
    capacity,   \* FfiString.capacity
    drop,       \* FfiString.drop: DropNone or the attached destructor
    heap,       \* every allocation made so far
    pc,         \* "live", "dropped" (Drop has run) or "aborted"
    last,       \* the last call: op, result, reason, path
    ctor,       \* the constructor call that made the buffer
    given,      \* the push_str/push calls made, in order: [op, s]
    accepted,   \* the constructor's string and the strings whose call returned
    ffi,        \* the borrowed view, the wide pointer made from it, the value
                \* the last view or pointer call returned, and the
                \* slice::from_raw_parts calls made on the wide pointer
    pre,        \* a PreRead: LEN, buffer, len, error, read (the inner reader)
    src,        \* a reader that is not inside a PreRead
    iter,       \* a PreIter: LEN, buf, len, iter (the inner iterator)
    stack,      \* a StackString: buf, len
    pipe,       \* the locals of pipe / pipe_with: BUF, buf, len, reader,
                \* download, and which of the two it is
    write,      \* the writer given to pipe: the bytes it has received
    obs         \* what the caller of the last call saw, and what it has seen

vars == <<buf, len, capacity, drop, heap, pc, last, ctor, given, accepted, ffi,
          pre, src, iter, stack, pipe, write, obs>>

\* the objects of io.rs, iter.rs and str/, and the values they have in the
\* specifications that do not use them
IoVars == <<pre, src, iter, stack, pipe, write, obs>>
NoPre == [LEN |-> 0]
NoReader == [script |-> <<>>]
NoIter == [LEN |-> 0]
NoPipe == [BUF |-> 0]
NoWriter == [got |-> <<>>]
NoObs == [ret |-> "none"]
NoIo ==
    /\ pre = NoPre
    /\ src = NoReader
    /\ iter = NoIter
    /\ stack = StackString_new
    /\ pipe = NoPipe
    /\ write = NoWriter
    /\ obs = NoObs

\* the buffer value of the current state
Self == [buf |-> buf, len |-> len, capacity |-> capacity, drop |-> drop,
         heap |-> heap]

Call(op, result, reason, path) ==
    [op |-> op, result |-> result, reason |-> reason, path |-> path]

\* the constructor calls of the main specification
CtorInputs ==
    {[name |-> "new", s |-> <<>>, n |-> 0]}
    \cup {[name |-> "with_capacity", s |-> <<>>, n |-> n] : n \in 0..MaxCap}
    \cup {[name |-> "From_String", s |-> s, n |-> Len(s) + k] :
            s \in StrInputs, k \in 0..MaxSlack}
    \cup {[name |-> "From_str", s |-> s, n |-> Len(s)] : s \in StrInputs}

Construct(c) ==
    CASE c.name = "new" -> FfiString_new
      [] c.name = "with_capacity" -> FfiString_with_capacity(c.n)
      [] c.name = "From_String" -> From_String(MakeString(c.s, c.n))
      [] c.name = "From_str" -> From_str(c.s)
      [] c.name = "foreign" -> ForeignBuffer(c.s, c.n)

Constructed(c) ==
    LET st == Construct(c)
    IN  /\ buf = st.buf
        /\ len = st.len
        /\ capacity = st.capacity
        /\ drop = st.drop
        /\ heap = st.heap
        /\ pc = "live"
        /\ last = Call(c.name, "ok", "none", "none")
        /\ ctor = c
        /\ given = <<>>
        /\ accepted = c.s
        /\ ffi = NoFfi
        /\ NoIo

Init == \E c \in CtorInputs : Constructed(c)

\* the effect of a push_str or push call whose outcome is r
Apply(op, s, r) ==
    /\ buf' = r.buf
    /\ len' = r.len
    /\ capacity' = r.capacity
    /\ drop' = r.drop
    /\ heap' = r.heap
    /\ last' = Call(op, r.result, r.reason, r.path)
    /\ given' = Append(given, [op |-> op, s |-> s])
    /\ accepted' = IF r.result = "ok" THEN accepted \o s ELSE accepted
    /\ UNCHANGED <<pc, ctor, ffi, IoVars>>

PushStr(s) ==
    /\ pc = "live"
    /\ Len(given) < MaxOps
    /\ Apply("push_str", s, push_str(Self, s))

Push(c) ==
    /\ pc = "live"
    /\ Len(given) < MaxOps
    /\ Apply("push", Utf8Encode(c), push(Self, c))

\* len, capacity, is_empty, as_bytes: they read the fields and return
Accessor(op) ==
    /\ pc = "live"
    /\ last' = Call(op, "ok", "none", "none")
    /\ UNCHANGED <<buf, len, capacity, drop, heap, pc, ctor, given, accepted,
                   ffi, IoVars>>

\* as_str, as_ffi_str: slice::from_raw_parts(buf, len)
RawPartsAccessor(op) ==
    /\ pc = "live"
    /\ \E o \in RawPartsOutcomes(Self) :
        /\ last' = Call(op, o, IF o = "ok" THEN "none" ELSE "null_slice", "none")
        /\ pc' = IF o = "ok" THEN pc ELSE "aborted"
    /\ UNCHANGED <<buf, len, capacity, drop, heap, ctor, given, accepted, ffi,
                   IoVars>>

Drop ==
    /\ pc = "live"
    /\ heap' = FfiString_drop(heap, buf, drop)
    /\ pc' = "dropped"
    /\ last' = Call("drop", "ok", "none", "none")
    /\ UNCHANGED <<buf, len, capacity, drop, ctor, given, accepted, ffi,
                   IoVars>>

Next ==
    \/ \E s \in StrInputs : PushStr(s)
    \/ \E c \in CharInputs : Push(c)
    \/ \E op \in {"len", "capacity", "is_empty", "as_bytes"} : Accessor(op)
    \/ \E op \in {"as_str", "as_ffi_str"} : RawPartsAccessor(op)
    \/ Drop

Spec == Init /\ [][Next]_vars

TypeOK ==
    /\ buf \in 0..Len(heap)
    /\ len \in 0..UsizeMax
    /\ capacity \in 0..UsizeMax
    /\ drop \in {DropNone, DropRust, DropForeign}
    /\ pc \in {"live", "dropped", "aborted"}
    /\ last.result \in {"ok", "panic", "abort"}

(***************************************************************************)
(* The growth computation over the whole range of capacities: the buffer   *)
(* is made from a String of l bytes with capacity c, then one push_str of  *)
(* n bytes is applied.                                                     *)
(***************************************************************************)
InitGrowth ==
    \E c \in 0..IsizeMax : \E l \in 0..c :
        Constructed([name |-> "From_String", s |-> Filler(l), n |-> c])

GrowthPush(n) ==
    /\ pc = "live"
    /\ given = <<>>
    /\ Apply("push_str", Filler(n), push_str(Self, Filler(n)))

NextGrowth == \E n \in 0..IsizeMax : GrowthPush(n)

SpecGrowth == InitGrowth /\ [][NextGrowth]_vars

(***************************************************************************)
(* A buffer received from the boundary with a foreign destructor, then     *)
(* used like any other.                                                    *)
(***************************************************************************)
InitForeign ==
    \E s \in StrInputs : \E k \in 0..MaxSlack :
        /\ Len(s) + k > 0
        /\ Constructed([name |-> "foreign", s |-> s, n |-> Len(s) + k])

SpecForeign == InitForeign /\ [][Next]_vars

(***************************************************************************)
(* A borrowed view of a str, the wide pointer made from it or received     *)
(* from the boundary, and the conversions between them and to an owned     *)
(* buffer.  pc is "none" until an owned buffer has been made.              *)
(***************************************************************************)
InitView ==
    \E s \in StrInputs :
        /\ heap = StrMemory(s)
        /\ ffi = [NoFfi EXCEPT !.view = FfiStr_from_str(1, Len(s))]
        /\ buf = 0 /\ len = 0 /\ capacity = 0 /\ drop = DropNone
        /\ pc = "none"
        /\ last = Call("from_str", "ok", "none", "none")
        /\ ctor = [name |-> "none", s |-> s, n |-> 0]
        /\ given = <<>>
        /\ accepted = <<>>
        /\ NoIo

Owned == <<buf, len, capacity, drop, heap, ctor, given, accepted>>

\* FfiStr::as_ptr
AsPtr ==
    /\ pc = "none"
    /\ ffi' = [ffi EXCEPT !.ptr = [buf |-> FfiStr_as_ptr(ffi.view).buf,
                                   len |-> FfiStr_as_ptr(ffi.view).len,
                                   from |-> "view"],
                          !.ret = NoRet]
    /\ last' = Call("as_ptr", "ok", "none", "none")
    /\ UNCHANGED <<Owned, pc, IoVars>>

\* an empty wide pointer handed over by foreign code, null or dangling
ReceivePtr(addr) ==
    /\ pc = "none"
    /\ ffi' = [ffi EXCEPT !.ptr = [buf |-> addr, len |-> 0, from |-> "foreign"],
                          !.ret = NoRet]
    /\ last' = Call("receive", "ok", "none", "none")
    /\ UNCHANGED <<Owned, pc, IoVars>>

\* the outcome of a call that made the slice::from_raw_parts calls `raw`
RawOutcomes(raw) ==
    {"ok"} \cup UNION {FromRawPartsOutcomes(c.data) : c \in raw}

\* impl From<FfiStrPtr> for &FfiStr
PtrToView ==
    /\ pc \in {"none", "live"}
    /\ ffi.ptr # NoPtr
    /\ LET r == FfiStr_from_raw_parts(ffi.ptr.buf, ffi.ptr.len)
       IN  \E o \in RawOutcomes(r.raw) :
            /\ ffi' = [ffi EXCEPT
                        !.raw = @ \cup r.raw,
                        !.ret = IF o = "ok"
                                THEN [kind |-> "view", addr |-> r.view.addr,
                                      len |-> r.view.len]
                                ELSE NoRet]
            /\ last' = Call("FfiStr_from_ptr", o,
                            IF o = "ok" THEN "none" ELSE "null_slice", "none")
            /\ pc' = IF o = "ok" THEN pc ELSE "aborted"
    /\ UNCHANGED <<Owned, IoVars>>

\* FfiStrPtr::as_str
PtrAsStr ==
    /\ pc \in {"none", "live"}
    /\ ffi.ptr # NoPtr
    /\ LET r == FfiStrPtr_as_str(ffi.ptr)
       IN  \E o \in RawOutcomes(r.raw) :
            /\ ffi' = [ffi EXCEPT
                        !.raw = @ \cup r.raw,
                        !.ret = IF o = "ok"
                                THEN [kind |-> "str", addr |-> r.str.addr,
                                      len |-> r.str.len]
                                ELSE NoRet]
            /\ last' = Call("FfiStrPtr_as_str", o,
                            IF o = "ok" THEN "none" ELSE "null_slice", "none")
            /\ pc' = IF o = "ok" THEN pc ELSE "aborted"
    /\ UNCHANGED <<Owned, IoVars>>

\* the effect of a conversion to an owned buffer that returned st
Converted(name, st) ==
    /\ buf' = st.buf
    /\ len' = st.len
    /\ capacity' = st.capacity
    /\ drop' = st.drop
    /\ heap' = st.heap
    /\ pc' = "live"
    /\ ctor' = [ctor EXCEPT !.name = name]
    /\ accepted' = as_bytes(st)
    /\ last' = Call(name, "ok", "none", "none")
    /\ UNCHANGED <<given, IoVars>>

\* impl From<&FfiStr> for FfiString
ViewToOwned ==
    /\ pc = "none"
    /\ Converted("From_FfiStr", From_FfiStr(heap, ffi.view))
    /\ ffi' = [ffi EXCEPT !.ret = NoRet]

\* impl From<FfiStrPtr> for FfiString
PtrToOwned ==
    /\ pc = "none"
    /\ ffi.ptr # NoPtr
    /\ LET r == FfiStrPtr_as_str(ffi.ptr)
       IN  \E o \in RawOutcomes(r.raw) :
            /\ ffi' = [ffi EXCEPT !.raw = @ \cup r.raw, !.ret = NoRet]
            /\ IF o = "ok"
               THEN Converted("From_FfiStrPtr", From_FfiStrPtr(heap, ffi.ptr))
               ELSE /\ pc' = "aborted"
                    /\ last' = Call("From_FfiStrPtr", o, "null_slice", "none")
                    /\ UNCHANGED <<Owned, IoVars>>

\* FfiString::as_ffi_str on the owned buffer
OwnedAsFfiStr ==
    /\ pc = "live"
    /\ \E o \in RawPartsOutcomes(Self) :
        /\ ffi' = [ffi EXCEPT
                    !.ret = IF o = "ok"
                            THEN [kind |-> "view", addr |-> buf, len |-> len]
                            ELSE NoRet]
        /\ last' = Call("as_ffi_str", o,
                        IF o = "ok" THEN "none" ELSE "null_slice", "none")
        /\ pc' = IF o = "ok" THEN pc ELSE "aborted"
    /\ UNCHANGED <<Owned, IoVars>>

NextView ==
    \/ AsPtr
    \/ \E addr \in {0, Dangling} : ReceivePtr(addr)
    \/ PtrToView
    \/ PtrAsStr
    \/ ViewToOwned
    \/ PtrToOwned
    \/ OwnedAsFfiStr

SpecView == InitView /\ [][NextView]_vars

(***************************************************************************)
(* A PreRead<LEN, R> over a scripted reader.  PreRead::new runs one loop   *)
(* iteration per step (pc = "new"), because the loop need not end; every  *)
(* other call is one step (pc = "ready").                                   *)
(***************************************************************************)
MaxScript == 4
MaxPreLen == 3
MaxDest == 2

\* the FfiString of the specifications that have none
NoFfiString ==
    /\ buf = 0 /\ len = 0 /\ capacity = 0 /\ drop = DropNone
    /\ heap = <<>>
    /\ ctor = [name |-> "none", s |-> <<>>, n |-> 0]
    /\ given = <<>>
    /\ accepted = <<>>
    /\ ffi = NoFfi

FfiVars == <<buf, len, capacity, drop, heap, ctor, given, accepted, ffi>>

\* the scripts: every sequence of up to MaxScript tokens; the byte at place
\* i has the value i
Scripts ==
    UNION {{[i \in 1..n |-> IF k[i] = 0 THEN i ELSE k[i]] :
                k \in [1..n -> {0, ErrTok, EofTok}]} : n \in 0..MaxScript}

\* what the caller has seen: the reader errors returned to it, whether the
\* inner reader has returned 0 since construction or the last resume (now,
\* and before the last call), whether a read with a non-empty destination
\* called the inner reader after that, the last call's destination length
\* and result, and the struct before the last call
Seen(r) ==
    [kind |-> r.kind, bytes |-> r.bytes, err |-> r.err, calls |-> r.calls,
     zero |-> r.zero]

ObsInit(p) ==
    [returned |-> <<>>, eof |-> FALSE, eofBefore |-> FALSE, late |-> FALSE,
     n |-> 0, ret |-> Seen(Ret(p, "ok", <<>>, None, 0, FALSE)), before |-> p]

InitPreRead ==
    \E script \in Scripts : \E chunk \in {1, MaxPreLen} :
      \E LEN \in 1..MaxPreLen :
        /\ pre = PreRead_init(LEN, NewReader(script, chunk))
        /\ obs = ObsInit(pre)
        /\ pc = "new"
        /\ last = Call("new", "running", "none", "none")
        /\ src = NoReader /\ iter = NoIter /\ stack = StackString_new
        /\ pipe = NoPipe /\ write = NoWriter
        /\ NoFfiString

\* PreRead::new: the loop test and one iteration
NewStep ==
    /\ pc = "new"
    /\ IF pre.len < pre.LEN
       THEN LET s == PreRead_new_step(pre)
            IN  /\ pre' = s.p
                /\ pc' = IF s.break THEN "ready" ELSE "new"
                /\ obs' = [obs EXCEPT
                             !.eof = @ \/ (~s.break /\ s.p.len = pre.len)]
       ELSE /\ pc' = "ready"
            /\ UNCHANGED <<pre, obs>>
    /\ last' = Call("new", IF pc' = "ready" THEN "ok" ELSE "running", "none",
                    "none")
    /\ UNCHANGED <<FfiVars, src, iter, stack, pipe, write>>

\* the effect of a call with an n-byte destination that returned r
Returns(op, n, r) ==
    /\ pre' = r.p
    /\ obs' = [returned |-> IF r.kind = "err" /\ r.err # UnexpectedEof
                            THEN Append(obs.returned, r.err)
                            ELSE obs.returned,
               eof |-> IF op = "resume" THEN r.zero ELSE obs.eof \/ r.zero,
               eofBefore |-> obs.eof,
               late |-> obs.late \/ (/\ op \in {"read", "read_exact"}
                                      /\ n > 0 /\ obs.eof /\ r.calls > 0),
               n |-> n,
               ret |-> Seen(r),
               before |-> pre]
    /\ last' = Call(op, r.kind, "none", "none")
    /\ UNCHANGED <<pc, FfiVars, src, iter, stack, pipe, write>>

Read(n) ==
    /\ pc = "ready"
    /\ Returns("read", n, PreRead_read(pre, n))

ReadExact(n) ==
    /\ pc = "ready"
    /\ Returns("read_exact", n, PreRead_read_exact(pre, n))

FlushError ==
    /\ pc = "ready"
    /\ Returns("flush_error", 0, PreRead_flush_error(pre))

Resume ==
    /\ pc = "ready"
    /\ Returns("resume", 0, PreRead_resume(pre))

NextPreRead ==
    \/ NewStep
    \/ \E n \in 0..MaxDest : Read(n)
    \/ \E n \in 0..MaxDest : ReadExact(n)
    \/ FlushError
    \/ Resume

SpecPreRead == InitPreRead /\ [][NextPreRead]_vars

\* the constructor is a running call: it goes on while it can
SpecPreReadLive == SpecPreRead /\ WF_vars(NewStep)

(***************************************************************************)
(* Utf8 over a reader that never errors and fills every request: the      *)
(* stream is the encoding of a sequence of chars.                          *)
(***************************************************************************)
MaxChars == 3

\* the sequences of up to n chars
CharSeqs(n) == UNION {[1..k -> CharInputs] : k \in 0..n}

\* the bytes of a sequence of chars
Encoded(chars) == Concat([i \in 1..Len(chars) |-> Utf8Encode(chars[i])])

InitUtf8 ==
    \E chars \in CharSeqs(MaxChars) :
        /\ src = NewReader(Encoded(chars), Len(Encoded(chars)) + 1)
        /\ obs = [chars |-> chars, yielded |-> <<>>]
        /\ pc = "iter"
        /\ last = Call("Utf8::new", "ok", "none", "none")
        /\ pre = NoPre /\ iter = NoIter /\ stack = StackString_new
        /\ pipe = NoPipe /\ write = NoWriter
        /\ NoFfiString

\* the caller receives the item of r
Yields(r) ==
    /\ obs' = [obs EXCEPT !.yielded = IF r.item.tag = "none" THEN @
                                       ELSE Append(@, r.item)]
    /\ last' = Call("next", r.item.tag, "none", "none")

\* Utf8::next on the bare reader; None ends the iteration
Utf8RawNext(r) ==
    /\ src' = r.s
    /\ Yields(r)
    /\ pc' = IF r.item.tag = "none" THEN "done" ELSE "iter"

Utf8Next ==
    /\ pc = "iter"
    /\ Utf8RawNext(Utf8_next("raw", src))
    /\ UNCHANGED <<FfiVars, pre, iter, stack, pipe, write>>

NextUtf8 == Utf8Next

SpecUtf8 == InitUtf8 /\ [][NextUtf8]_vars

(***************************************************************************)
(* Utf8 over PreRead<4> over a reader that raises transient errors between *)
(* the bytes of the stream, used as the documentation does:                *)
(*   let mut checked = A::new(s).pre::<4>().into_utf8();                   *)
(*   while checked.inner_mut().flush_error().is_err() {}                   *)
(*   while let Some(char) = checked.next() {                               *)
(*       ...; while checked.inner_mut().flush_error().is_err() {} }        *)
(* obs.phase is the caller's place in this loop.                           *)
(***************************************************************************)
Utf8PreLen == 4
MaxPreChars == 2
MaxErrs == 2

\* bytes with an ErrTok put in front of byte number g + 1 for every g in
\* gaps (a sequence in ascending order; g = Len(bytes) is the end)
RECURSIVE WithErrors(_, _, _)
WithErrors(bytes, gaps, at) ==
    IF gaps # <<>> /\ Head(gaps) = at
    THEN <<ErrTok>> \o WithErrors(bytes, Tail(gaps), at)
    ELSE IF bytes = <<>> THEN <<>>
    ELSE <<Head(bytes)>> \o WithErrors(Tail(bytes), gaps, at + 1)

\* the placements of up to MaxErrs errors in the n + 1 gaps of n bytes
Placements(n) ==
    UNION {{g \in [1..k -> 0..n] : \A i \in 1..(k - 1) : g[i] <= g[i + 1]} :
              k \in 0..MaxErrs}

InitUtf8Pre ==
    \E chars \in CharSeqs(MaxPreChars) :
      \E gaps \in Placements(Len(Encoded(chars))) :
        \E chunk \in {1, Utf8PreLen} :
          /\ pre = PreRead_init(Utf8PreLen,
                       NewReader(WithErrors(Encoded(chars), gaps, 0), chunk))
          /\ obs = [chars |-> chars, yielded |-> <<>>, phase |-> "flush",
                    eof |-> FALSE]
          /\ pc = "new"
          /\ last = Call("new", "running", "none", "none")
          /\ src = NoReader /\ iter = NoIter /\ stack = StackString_new
          /\ pipe = NoPipe /\ write = NoWriter
          /\ NoFfiString

\* one turn of `while checked.inner_mut().flush_error().is_err() {}`
Drained(r) ==
    /\ pre' = r.p
    /\ obs' = [obs EXCEPT !.phase = IF r.kind = "err" THEN "flush" ELSE "next"]
    /\ last' = Call("flush_error", r.kind, "none", "none")

DrainError ==
    /\ pc = "ready"
    /\ obs.phase = "flush"
    /\ Drained(PreRead_flush_error(pre))
    /\ UNCHANGED <<pc, FfiVars, src, iter, stack, pipe, write>>

\* checked.next()
Utf8PreYields(r) ==
    /\ pre' = r.s
    /\ obs' = [obs EXCEPT
                 !.yielded = IF r.item.tag = "none" THEN @
                             ELSE Append(@, r.item),
                 !.phase = IF r.item.tag = "none" THEN "done" ELSE "flush"]
    /\ last' = Call("next", r.item.tag, "none", "none")

Utf8PreNext ==
    /\ pc = "ready"
    /\ obs.phase = "next"
    /\ Utf8PreYields(Utf8_next("pre", pre))
    /\ UNCHANGED <<pc, FfiVars, src, iter, stack, pipe, write>>

NextUtf8Pre ==
    \/ NewStep
    \/ DrainError
    \/ Utf8PreNext

SpecUtf8Pre == InitUtf8Pre /\ [][NextUtf8Pre]_vars

\* the caller is between new's return and the None of next()
CallerRuns == pc = "ready" /\ obs.phase \in {"flush", "next"}

\* new's loop and the caller's loop go on while they can: weak fairness of
\* NewStep and of the caller's two steps. A caller's step is enabled exactly
\* in the states of CallerRuns (each one changes pre or obs.phase), so its
\* weak fairness is written with CallerRuns for ENABLED.
SpecUtf8PreLive ==
    /\ SpecUtf8Pre
    /\ WF_vars(NewStep)
    /\ ([]<>(~CallerRuns) \/ []<><<DrainError \/ Utf8PreNext>>_vars)

(***************************************************************************)
(* pipe::<BUF, W> and pipe_with::<BUF, W, F> from a scripted reader into a *)
(* writer that may accept a part of the bytes offered; one step is one     *)
(* iteration of `while len > 0 || reader.is_some()`.                       *)
(***************************************************************************)
MaxBuf == 3
MaxWrites == 2

\* the limits of the writer's first calls; 0 is a writer that returns Ok(0)
Limits == UNION {[1..k -> 0..2] : k \in 0..MaxWrites}

PipeName == IF pipe.with THEN "pipe_with" ELSE "pipe"

InitPipe ==
    \E script \in Scripts : \E chunk \in {1, MaxBuf} :
      \E BUF \in 1..MaxBuf : \E limits \in Limits : \E with \in BOOLEAN :
        /\ src = NewReader(script, chunk)
        /\ pipe = pipe_init(BUF, with)
        /\ write = NewWriter(limits)
        /\ pc = "pipe"
        /\ last = Call(IF with THEN "pipe_with" ELSE "pipe", "running",
                       "none", "none")
        /\ pre = NoPre /\ iter = NoIter /\ stack = StackString_new
        /\ obs = NoObs
        /\ NoFfiString

\* the iteration ends in b: `?` returns the error, else the loop goes on
PipeDrained(b) ==
    /\ pipe' = b.p
    /\ write' = b.write
    /\ pc' = IF b.kind = "err" THEN "done" ELSE "pipe"
    /\ last' = Call(PipeName, IF b.kind = "err" THEN "err" ELSE "running",
                    "none", "none")

\* the read of the iteration gave a
PipeFilled(a) ==
    /\ src' = a.src
    /\ IF a.kind = "err"
       THEN /\ pipe' = a.p
            /\ pc' = "done"
            /\ last' = Call(PipeName, "err", "none", "none")
            /\ UNCHANGED write
       ELSE PipeDrained(pipe_drain(a.p, write))

PipeStep ==
    /\ pc = "pipe"
    /\ IF pipe.len > 0 \/ pipe.reader
       THEN PipeFilled(pipe_fill(pipe, src))
       ELSE /\ pc' = "done"
            /\ last' = Call(PipeName, "ok", "none", "none")
            /\ UNCHANGED <<pipe, write, src>>
    /\ UNCHANGED <<FfiVars, pre, iter, stack, obs>>

NextPipe == PipeStep

SpecPipe == InitPipe /\ [][NextPipe]_vars

(***************************************************************************)
(* PreIter over an inner iterator that may return Some again after None.   *)
(***************************************************************************)
MaxItems == 5
MaxIterLen == 3

\* the scripts of the inner iterator: the item at place i is i
IterScripts ==
    UNION {{[i \in 1..n |-> IF k[i] THEN i ELSE NoItem] :
                k \in [1..n -> BOOLEAN]} : n \in 0..MaxItems}

\* what the caller has seen: the items next returned, how many times it
\* returned None (up to 2), whether the inner iterator has returned None,
\* and whether it was called after that
InitPreIter ==
    \E script \in IterScripts : \E LEN \in 0..MaxIterLen :
        /\ iter = PreIter_new(LEN, NewIter(script))
        /\ obs = [yielded |-> <<>>, nones |-> 0, fused |-> iter.len < LEN,
                  late |-> FALSE]
        /\ pc = "ready"
        /\ last = Call("new", "ok", "none", "none")
        /\ pre = NoPre /\ src = NoReader /\ stack = StackString_new
        /\ pipe = NoPipe /\ write = NoWriter
        /\ NoFfiString

\* next returned r
PreIterReturns(r) ==
    /\ iter' = r.it
    /\ obs' = [yielded |-> IF r.item = NoItem THEN obs.yielded
                           ELSE Append(obs.yielded, r.item),
               nones |-> IF r.item = NoItem THEN Min(obs.nones + 1, 2)
                         ELSE obs.nones,
               fused |-> obs.fused \/ r.none,
               late |-> obs.late \/ (obs.fused /\ r.called)]
    /\ last' = Call("next", IF r.item = NoItem THEN "none" ELSE "some",
                    "none", "none")

PreIterNext ==
    /\ pc = "ready"
    /\ PreIterReturns(PreIter_next(iter))
    /\ UNCHANGED <<pc, FfiVars, pre, src, stack, pipe, write>>

NextPreIter == PreIterNext

SpecPreIter == InitPreIter /\ [][NextPreIter]_vars

(***************************************************************************)
(* A StackString<StackCapacity> that push, push_str and write_fmt are      *)
(* called on, with data that fits and data that does not.                  *)
(***************************************************************************)
MaxStrChars == 2

\* what the caller saw: as_bytes() before the call, the bytes given to the
\* call, and whether it returned Ok
InitStack ==
    /\ stack = StackString_new
    /\ obs = [bytes |-> <<>>, data |-> <<>>, ok |-> TRUE]
    /\ pc = "ready"
    /\ last = Call("new", "ok", "none", "none")
    /\ pre = NoPre /\ src = NoReader /\ iter = NoIter
    /\ pipe = NoPipe /\ write = NoWriter
    /\ NoFfiString

\* the call op with the bytes data returned r
StackReturns(op, data, r) ==
    /\ stack' = r.str
    /\ obs' = [bytes |-> StackString_as_bytes(stack), data |-> data,
               ok |-> r.ok]
    /\ last' = Call(op, IF r.ok THEN "ok" ELSE "err",
                    IF r.ok THEN "none" ELSE "PushError", "none")
    /\ UNCHANGED <<pc, FfiVars, pre, src, iter, pipe, write>>

StackPush ==
    \E c \in CharInputs :
        /\ pc = "ready"
        /\ StackReturns("push", Utf8Encode(c), StackString_push(stack, c))

StackPushStr ==
    \E chars \in CharSeqs(MaxStrChars) :
        /\ pc = "ready"
        /\ StackReturns("push_str", Encoded(chars),
                        StackString_push_str(stack, Encoded(chars)))

\* write_fmt(format_args!("{s}")) for a str s
StackWriteFmt ==
    \E chars \in CharSeqs(MaxStrChars) :
        /\ pc = "ready"
        /\ StackReturns("write_fmt", Encoded(chars),
                        StackString_write_fmt(stack, Encoded(chars)))

NextStack ==
    \/ StackPush
    \/ StackPushStr
    \/ StackWriteFmt

SpecStack == InitStack /\ [][NextStack]_vars

(***************************************************************************)
(* push_str statement by statement: pc is "live" between calls and the     *)
(* place inside the reallocating branch during one. The locals are read    *)
(* from the state: str is the last entry of given, newstring is the last   *)
(* allocation of the heap.                                                 *)
(***************************************************************************)
MaxCalls == 2

\* str, olen and newstring of the call in progress
CallStr == given[Len(given)].s
NewString == Len(heap)

InitRealloc ==
    \E c \in CtorInputs
            \cup {[name |-> "From_String", s |-> Filler(c), n |-> c] :
                     c \in {IsizeMax \div 2, IsizeMax}}
            \cup {[name |-> "foreign", s |-> s, n |-> Len(s) + 1] :
                     s \in StrInputs} :
        Constructed(c)

\* the call up to the test of line 319: it returns at once for an empty
\* str, appends in place, or goes on to reallocate
PushStrEnter(s) ==
    /\ pc = "live"
    /\ Len(given) < MaxCalls
    /\ IF s = <<>> \/ FitsInPlace(len, Len(s), capacity)
       THEN Apply("push_str", s, push_str(Self, s))
       ELSE /\ given' = Append(given, [op |-> "push_str", s |-> s])
            /\ pc' = "newsize"
            /\ last' = Call("push_str", "running", "none", "grow")
            /\ UNCHANGED <<buf, len, capacity, drop, heap, ctor, accepted,
                           ffi, IoVars>>

\* the call ends in a panic: the fields were not assigned
GrowPanics(h, why) ==
    /\ heap' = h
    /\ pc' = "live"
    /\ last' = Call("push_str", "panic", why, "grow")
    /\ UNCHANGED <<buf, len, capacity, drop, ctor, given, accepted, ffi,
                   IoVars>>

\* the statement at `at` changed the heap to h and the call goes on at `to`
GrowGoes(h, to) ==
    /\ heap' = h
    /\ pc' = to
    /\ UNCHANGED <<buf, len, capacity, drop, last, ctor, given, accepted,
                   ffi, IoVars>>

\* lines 326-335: newsize and newstring
GrowAlloc ==
    /\ pc = "newsize"
    /\ IF NewSize(capacity, Len(CallStr)) = None
       THEN GrowPanics(heap, "too_long")
       ELSE IF NewSize(capacity, Len(CallStr)) > IsizeMax
       THEN GrowPanics(heap, "capacity_overflow")
       ELSE GrowGoes(String_with_capacity(heap,
                         NewSize(capacity, Len(CallStr)), FALSE), "copy_old")

\* lines 337-339: the bytes held so far
GrowCopyOld ==
    /\ pc = "copy_old"
    /\ GrowGoes(IF buf # 0 THEN WriteBytes(heap, NewString, 0, as_bytes(Self))
                ELSE heap, "copy_new")

\* line 340: the bytes of str; a panic unwinds through newstring, which
\* frees it
GrowCopyNew ==
    /\ pc = "copy_new"
    /\ IF ~(/\ SliceIndexOk(wrapping_add(len, Len(CallStr)),
                            TailRange(len, Len(CallStr))[1],
                            TailRange(len, Len(CallStr))[2])
            /\ TailRange(len, Len(CallStr))[2]
                 - TailRange(len, Len(CallStr))[1] = Len(CallStr))
       THEN GrowPanics(String_drop(heap, NewString), "slice")
       ELSE GrowGoes(WriteBytes(heap, NewString,
                                TailRange(len, Len(CallStr))[1], CallStr),
                     "drop_old")

\* lines 342-346: drop(self)
GrowDropOld ==
    /\ pc = "drop_old"
    /\ GrowGoes(DropOld(heap, buf, drop), "set_buf")

\* line 348: self.buf = newstring.as_mut_ptr()
GrowSetBuf ==
    /\ pc = "set_buf"
    /\ buf' = NewString
    /\ pc' = "set_len"
    /\ UNCHANGED <<len, capacity, drop, heap, last, ctor, given, accepted,
                   ffi, IoVars>>

\* line 349: self.len += olen
GrowSetLen ==
    /\ pc = "set_len"
    /\ len' = wrapping_add(len, Len(CallStr))
    /\ pc' = "set_drop"
    /\ UNCHANGED <<buf, capacity, drop, heap, last, ctor, given, accepted,
                   ffi, IoVars>>

\* line 350: self.drop = Some(__libcommons_rust_drop)
GrowSetDrop ==
    /\ pc = "set_drop"
    /\ drop' = DropRust
    /\ pc' = "set_capacity"
    /\ UNCHANGED <<buf, len, capacity, heap, last, ctor, given, accepted,
                   ffi, IoVars>>

\* line 351: self.capacity = newstring.capacity()
GrowSetCapacity ==
    /\ pc = "set_capacity"
    /\ capacity' = heap[NewString].size
    /\ pc' = "forget"
    /\ UNCHANGED <<buf, len, drop, heap, last, ctor, given, accepted, ffi,
                   IoVars>>

\* line 353: forget(newstring), and the call returns
GrowForget ==
    /\ pc = "forget"
    /\ heap' = [heap EXCEPT ![NewString].owned = TRUE]
    /\ pc' = "live"
    /\ last' = Call("push_str", "ok", "none", "grow")
    /\ accepted' = accepted \o CallStr
    /\ UNCHANGED <<buf, len, capacity, drop, ctor, given, ffi, IoVars>>

NextRealloc ==
    \/ \E s \in StrInputs : PushStrEnter(s)
    \/ GrowAlloc
    \/ GrowCopyOld
    \/ GrowCopyNew
    \/ GrowDropOld
    \/ GrowSetBuf
    \/ GrowSetLen
    \/ GrowSetDrop
    \/ GrowSetCapacity
    \/ GrowForget

SpecRealloc == InitRealloc /\ [][NextRealloc]_vars

(***************************************************************************)
(* Properties.                                                             *)
(***************************************************************************)
GivenStrs == [i \in 1..Len(given) |-> given[i].s]

OnlyPushStr == \A i \in 1..Len(given) : given[i].op = "push_str"

OwnedAllocations == {i \in 1..Len(heap) : heap[i].owned}

\* well-formed UTF-8: lead bytes followed by the right number of
\* continuation bytes
IsContinuation(b) == b >= 128 /\ b <= 191

RECURSIVE Utf8Valid(_)
Utf8Valid(b) ==
    IF b = <<>> THEN TRUE
    ELSE LET n == IF b[1] < 128 THEN 1
                  ELSE IF b[1] >= 194 /\ b[1] <= 223 THEN 2
                  ELSE IF b[1] >= 224 /\ b[1] <= 239 THEN 3
                  ELSE IF b[1] >= 240 /\ b[1] <= 244 THEN 4
                  ELSE 0
         IN  /\ n > 0
             /\ n <= Len(b)
             /\ \A i \in 2..n : IsContinuation(b[i])
             /\ Utf8Valid(SubSeq(b, n + 1, Len(b)))

\* C1: starting from FfiString::new(), every push_str call returns
\* normally, and afterwards as_bytes() is the concatenation of the strings
\* pushed and len() is the sum of their lengths.
C1_PushStrConcatenates ==
    (ctor.name = "new" /\ OnlyPushStr /\ pc = "live") =>
        /\ last.result = "ok"
        /\ as_bytes(Self) = Concat(GivenStrs)
        /\ len = Len(Concat(GivenStrs))

\* C2: every allocation the buffer has owned has its destructor invoked at
\* most once at any time, is released by nothing else, and has it invoked
\* exactly once when the buffer has been dropped.
C2_DestructorExactlyOnce ==
    \A i \in OwnedAllocations :
        /\ heap[i].dtor <= 1
        /\ heap[i].dealloc = heap[i].dtor
        /\ (pc = "dropped" => heap[i].dtor = 1)

\* C2 witness: a dropped buffer that has owned two allocations (it grew)
C2_Witness == pc = "dropped" /\ Cardinality(OwnedAllocations) >= 2

\* C3: length <= capacity in every state.
C3_LenLeCapacity == len <= capacity

\* C3 witness: a buffer that grew and one that has spare capacity
C3_Witness == last.path = "grow" /\ last.result = "ok" /\ len > 0 /\ len < capacity

\* C4: a null address means length 0, capacity 0 and no destructor; a
\* destructor is attached only to a non-null address.
C4_NullMeansEmpty ==
    /\ (buf = 0 => len = 0 /\ capacity = 0 /\ drop = DropNone)
    /\ (drop # DropNone => buf # 0)

\* C4 witness: a null buffer made from a String without allocation, after
\* a call
C4_Witness == buf = 0 /\ ctor.name = "From_String" /\ given # <<>>

\* C5: the bytes [0, len) seen through as_bytes and as_str are the
\* constructor's string followed by the strings of the calls that returned,
\* each complete; they are valid UTF-8.
C5_ExposedBytesComplete ==
    pc = "live" =>
        /\ as_bytes(Self) = accepted
        /\ as_str(Self) = accepted
        /\ Utf8Valid(as_str(Self))

\* C5 witness: a multi-byte string was appended in place after a call that
\* panicked while growing
C5_Witness ==
    /\ pc = "live"
    /\ last.path = "inplace"
    /\ \E i \in 1..Len(given) : given[i].s \notin {<<>>} /\ Len(given[i].s) > 2
    /\ Len(accepted) < Len(Concat(GivenStrs))

\* C6: FfiString::new() allocates nothing and yields a null address,
\* length 0, capacity 0 and no destructor; dropping it right away calls no
\* destructor and frees nothing (the heap is still empty after Drop).
C6_NewIsEmpty ==
    (ctor.name = "new" /\ given = <<>>) =>
        /\ buf = 0 /\ len = 0 /\ capacity = 0 /\ drop = DropNone
        /\ heap = <<>>

\* C6 witness: new() followed by Drop
C6_Witness == ctor.name = "new" /\ given = <<>> /\ pc = "dropped"

\* C7: with_capacity(n), n > 0: one allocation, length 0, capacity >= n,
\* non-null address, destructor attached; n = 0: as new(), and dropping it
\* frees nothing.
C7_WithCapacity ==
    (ctor.name = "with_capacity" /\ given = <<>>) =>
        IF ctor.n > 0
        THEN /\ Len(heap) = 1
             /\ len = 0 /\ capacity >= ctor.n /\ buf # 0 /\ drop # DropNone
             /\ heap[buf].size >= capacity
        ELSE /\ buf = 0 /\ len = 0 /\ capacity = 0 /\ drop = DropNone
             /\ heap = <<>>

\* C7 witness: with_capacity(n) for the largest n, read back by capacity()
C7_Witness ==
    ctor.name = "with_capacity" /\ ctor.n = MaxCap /\ given = <<>>
    /\ last.op = "capacity"

\* C7 witness of the other case: with_capacity(0) followed by Drop
C7_WitnessZero ==
    ctor.name = "with_capacity" /\ ctor.n = 0 /\ given = <<>> /\ pc = "dropped"

\* C8: a push_str of n bytes with len + n <= capacity leaves the address,
\* the capacity, the destructor and the first len bytes alone, allocates
\* and releases nothing, returns, and adds n to len.
C8_InPlaceFrame ==
    [][(/\ Len(given') = Len(given) + 1
        /\ given'[Len(given')].op = "push_str"
        /\ len + Len(given'[Len(given')].s) <= capacity)
       => (/\ last'.result = "ok"
           /\ buf' = buf /\ capacity' = capacity /\ drop' = drop
           /\ Len(heap') = Len(heap)
           /\ \A i \in 1..Len(heap) :
                /\ heap'[i].dtor = heap[i].dtor
                /\ heap'[i].dealloc = heap[i].dealloc
                /\ heap'[i].size = heap[i].size
           /\ as_bytes(Self) =
                SubSeq(as_bytes([buf |-> buf', len |-> len', heap |-> heap']),
                       1, len)
           /\ len' = len + Len(given'[Len(given')].s))]_vars

\* C8 witness: an append in place that filled the buffer exactly
C8_Witness ==
    last.op = "push_str" /\ last.path = "inplace" /\ len = capacity /\ len >= 2

\* C9: when 2 * nextPowerOfTwo(capacity + n) does not fit the addressable
\* range (it exceeds isize::MAX, the largest allocation, or usize itself), a
\* push_str that has to grow panics: the fields are as before and nothing
\* was allocated.
C9_GrowthOverflowPanics ==
    (/\ Len(given) = 1
     /\ Len(ctor.s) + Len(given[1].s) > ctor.n
     /\ 2 * PowerOfTwoFrom(1, ctor.n + Len(given[1].s)) > IsizeMax)
    => /\ last.result = "panic"
       /\ last.reason \in {"too_long", "capacity_overflow"}
       /\ buf = Construct(ctor).buf /\ len = Len(ctor.s) /\ capacity = ctor.n
       /\ drop = Construct(ctor).drop
       /\ heap = Construct(ctor).heap

\* C9 witness: the doubling overflowed usize
C9_Witness ==
    /\ Len(given) = 1
    /\ last.reason = "too_long"
    /\ PowerOfTwoFrom(1, ctor.n + Len(given[1].s)) <= UsizeMax

\* C10: no call fails except a push_str/push whose growth size overflows.
C10_OnlyGrowthOverflowFails ==
    last.result # "ok" =>
        /\ last.op \in {"push_str", "push"}
        /\ last.reason \in {"too_long", "capacity_overflow"}

\* C18: push(c) does what push_str does with the UTF-8 encoding of c, and
\* the 4-byte stack string takes every character.
C18_PushIsPushStr ==
    [][(/\ Len(given') = Len(given) + 1
        /\ given'[Len(given')].op = "push")
       => LET r == push_str(Self, given'[Len(given')].s)
          IN  /\ buf' = r.buf /\ len' = r.len /\ capacity' = r.capacity
              /\ drop' = r.drop /\ heap' = r.heap
              /\ last'.result = r.result /\ last'.reason = r.reason
              /\ last'.reason # "unwrap"]_vars

\* C18 witness: a 4-byte character was pushed and the call returned
C18_Witness ==
    /\ last.op = "push" /\ last.result = "ok"
    /\ Len(given[Len(given)].s) = StackCapacity
    /\ len > StackCapacity

RECURSIVE CeilLog2From(_, _, _)
CeilLog2From(e, p, k) == IF p >= k THEN e ELSE CeilLog2From(e + 1, 2 * p, k)

\* the least e with 2^e >= k
CeilLog2(k) == CeilLog2From(0, 1, k)

\* C20: k single-byte push_str calls on a buffer from new() all return, with
\* at most ceil(log2(k)) + 1 reallocations.
C20_LogarithmicReallocs ==
    (/\ ctor.name = "new" /\ pc = "live" /\ given # <<>>
     /\ \A i \in 1..Len(given) :
            given[i].op = "push_str" /\ Len(given[i].s) = 1)
    => /\ last.result = "ok"
       /\ len = Len(given)
       /\ Len(heap) <= CeilLog2(Len(given)) + 1

\* C19: storage from the foreign allocator is released by the foreign
\* destructor only, storage from the library's allocator by the library's
\* only, and the destructor attached to the buffer is the one of the
\* allocator its storage came from.
C19_ReleasedByOwnDestructor ==
    /\ \A i \in 1..Len(heap) :
        /\ heap[i].allocator = "foreign" =>
              heap[i].dtor = 0 /\ heap[i].dealloc = heap[i].fdtor
        /\ heap[i].allocator = "rust" => heap[i].fdtor = 0
    /\ (buf # 0 /\ drop = DropRust) => heap[buf].allocator = "rust"
    /\ (buf # 0 /\ drop = DropForeign) => heap[buf].allocator = "foreign"

\* C19 witness: a foreign buffer grew; its old storage went through the
\* foreign destructor and the new storage carries the library's
C19_Witness ==
    /\ ctor.name = "foreign"
    /\ last.path = "grow" /\ last.result = "ok"
    /\ heap[1].fdtor = 1
    /\ buf # 1 /\ drop = DropRust

\* C11: a view converted to an owned buffer and taken back with
\* as_ffi_str() has the bytes and the length of the view.
C11_ViewRoundTrip ==
    (ctor.name = "From_FfiStr" /\ last.op = "as_ffi_str") =>
        /\ last.result = "ok"
        /\ ffi.ret.len = ffi.view.len
        /\ ViewBytes(heap, ffi.ret) = FfiStr_as_str(heap, ffi.view)

\* C12: converting a view to an owned buffer makes a new allocation, and
\* the buffer's storage is not the memory of the view.
C12_AlwaysAllocates ==
    ctor.name = "From_FfiStr" =>
        /\ Len(heap) = 2
        /\ buf # 0 /\ buf # ffi.view.addr
        /\ heap[buf].allocator = "rust"

\* C12 as amended: a non-empty view is copied into one new allocation,
\* which is not the memory of the view and leaves it as it was; the empty
\* view gives a buffer with a null address and no allocation.
C12_AllocatesUnlessEmpty ==
    ctor.name = "From_FfiStr" =>
        /\ heap[1] = StrMemory(ctor.s)[1]
        /\ as_bytes(Self) = ctor.s
        /\ IF ffi.view.len > 0
           THEN /\ Len(heap) = 2
                /\ buf # 0 /\ buf # ffi.view.addr
                /\ heap[buf].allocator = "rust"
                /\ drop = DropRust
           ELSE /\ Len(heap) = 1
                /\ buf = 0 /\ drop = DropNone

\* C12 witness: a non-empty view was converted
C12_Witness == ctor.name = "From_FfiStr" /\ ffi.view.len > 1 /\ len > 1

\* C13: the wide pointer of the empty view is empty with length 0, and the
\* owned buffer made from it has length 0, capacity 0, a null address and
\* no destructor, with no allocation made.
C13_EmptyPtrToOwned ==
    (ffi.view.len = 0 /\ ffi.ptr.from = "view") =>
        /\ FfiStrPtr_is_empty(ffi.ptr)
        /\ FfiStrPtr_len(ffi.ptr) = 0
        /\ ctor.name = "From_FfiStrPtr" =>
              /\ buf = 0 /\ len = 0 /\ capacity = 0 /\ drop = DropNone
              /\ Len(heap) = 1
        /\ last.op = "From_FfiStrPtr" => last.result = "ok"

\* C13 witness: the empty view's wide pointer was converted
C13_Witness ==
    ffi.view.len = 0 /\ ffi.ptr.from = "view" /\ ctor.name = "From_FfiStrPtr"

\* C14: as_ptr gives a wide pointer with the address and length of the view
\* and copies nothing; converting it back gives a view with the same
\* address, length and bytes.
C14_PtrRoundTrip ==
    ffi.ptr.from = "view" =>
        /\ ffi.ptr.buf = ffi.view.addr /\ ffi.ptr.len = ffi.view.len
        /\ pc = "none" => heap = StrMemory(ctor.s)
        /\ last.op = "FfiStr_from_ptr" =>
              /\ last.result = "ok"
              /\ ffi.ret.addr = ffi.view.addr /\ ffi.ret.len = ffi.view.len
              /\ ViewBytes(heap, ffi.ret) = ctor.s

\* C14 witness: a non-empty view went to a wide pointer and back
C14_Witness ==
    ffi.ptr.from = "view" /\ last.op = "FfiStr_from_ptr" /\ ffi.view.len > 1

\* C15: for every view v, v.as_ptr().as_str() is v.as_str().
C15_PtrAsStr ==
    (ffi.ptr.from = "view" /\ last.op = "FfiStrPtr_as_str") =>
        /\ last.result = "ok"
        /\ ViewBytes(heap, ffi.ret) = FfiStr_as_str(heap, ffi.view)

\* C16: the owned buffer cloned from the wide pointer of a view has the
\* bytes and the length of the view.
C16_PtrToOwnedBytes ==
    (ffi.ptr.from = "view" /\ ctor.name = "From_FfiStrPtr") =>
        /\ as_bytes(Self) = FfiStr_as_str(heap, ffi.view)
        /\ len = ffi.view.len

\* C17: no conversion of a wide pointer gives its address to
\* slice::from_raw_parts when its length is 0.
C17_NoReferenceWhenEmpty ==
    \A c \in ffi.raw : c.len > 0

\* C21: PreRead::new returns for every inner reader, in particular for a
\* stream that holds fewer than LEN bytes
C21_NewReturns == <>(pc = "ready")

\* C22: every error the inner reader returned is either pending in the
\* PreRead or has been returned to the caller, once and in order: none is
\* overwritten, none dropped
C22_ErrorsHeldOrReturned ==
    pre.read.raised =
        obs.returned \o (IF pre.error = None THEN <<>> ELSE <<pre.error>>)

\* C23: a read or read_exact with a zero-length destination returns the
\* pending error and clears it, or succeeds when none is pending, and
\* removes no byte from the prefetch buffer
C23_ZeroLengthRead ==
    (last.op \in {"read", "read_exact"} /\ obs.n = 0) =>
        /\ IF obs.before.error # None
           THEN /\ obs.ret.kind = "err"
                /\ obs.ret.err = obs.before.error
                /\ pre.error # obs.before.error
           ELSE /\ obs.ret.kind = "ok"
                /\ pre = obs.before
        /\ obs.ret.bytes = <<>>
        /\ pre.len >= obs.before.len
        /\ SubSeq(pre.buffer, 1, obs.before.len)
             = SubSeq(obs.before.buffer, 1, obs.before.len)

C23_Witness ==
    /\ last.op \in {"read", "read_exact"} /\ obs.n = 0
    /\ obs.before.error # None
    /\ obs.before.len > 0
    /\ pre.len > obs.before.len

\* C24: once the inner reader has returned 0, a read or read_exact with a
\* non-empty destination does not call it again, and with the buffer drained
\* reports end of stream, until resume is called
C24_FusedAfterEof ==
    /\ ~obs.late
    /\ (/\ last.op \in {"read", "read_exact"} /\ obs.n > 0
        /\ obs.eofBefore /\ obs.before.len = 0
        /\ obs.before.error = None) =>
            IF last.op = "read"
            THEN obs.ret.kind = "ok" /\ obs.ret.bytes = <<>>
            ELSE obs.ret.kind = "err" /\ obs.ret.err = UnexpectedEof

\* the bytes the inner reader supplied during the last call
Fresh ==
    {i \in (obs.before.read.pos + 1)..pre.read.pos : pre.read.script[i] >= 0}

\* the errors the inner reader raised during the last call
RaisedInCall ==
    {pre.read.raised[i] :
        i \in (Len(obs.before.read.raised) + 1)..Len(pre.read.raised)}

\* C25: a resume (with no error pending when it is called) in which the inner
\* reader returns 0 without having supplied a byte returns UnexpectedEof, and
\* one in which it returns an error before any byte returns that error
C25_ResumeReportsEof ==
    (last.op = "resume" /\ obs.before.error = None) =>
        /\ (obs.ret.zero /\ Fresh = {}) =>
                (obs.ret.kind = "err" /\ obs.ret.err = UnexpectedEof)
        /\ \A e \in RaisedInCall :
                (\A i \in Fresh : i > e) =>
                    (obs.ret.kind = "err" /\ obs.ret.err = e)

\* the items Some(Ok(c)) for the chars of a sequence
OkItems(chars) == [i \in 1..Len(chars) |-> [tag |-> "ok", v |-> chars[i]]]

\* the items yielded so far are the first chars of the stream, each Ok
YieldedInOrder ==
    /\ Len(obs.yielded) <= Len(obs.chars)
    /\ obs.yielded = SubSeq(OkItems(obs.chars), 1, Len(obs.yielded))

\* C26: with PreRead<4> and the errors drained by flush_error before the
\* first and after each next(), the iterator yields exactly the stream's
\* characters in order, with no replacement character and no error item,
\* for every placement of transient errors
C26_PreReadUtf8Exact ==
    /\ [](obs.phase = "done" => obs.yielded = OkItems(obs.chars))
    /\ []YieldedInOrder
    /\ <>(obs.phase = "done")

\* C27: over a reader that never errors and fills each request, the iterator
\* yields exactly the encoded characters in order, one Ok item per character,
\* and then None
C27_Utf8Decodes ==
    /\ YieldedInOrder
    /\ pc = "done" => obs.yielded = OkItems(obs.chars)

C27_Witness ==
    /\ pc = "done"
    /\ Len(obs.yielded) = MaxChars
    /\ \E i \in 1..Len(obs.chars) : obs.chars[i] > 65535
    /\ \E i \in 1..Len(obs.chars) : obs.chars[i] = 8364

\* the bytes a reader produces up to its end of stream
RECURSIVE StreamBytes(_)
StreamBytes(script) ==
    IF script = <<>> \/ Head(script) < 0 THEN <<>>
    ELSE <<Head(script)>> \o StreamBytes(Tail(script))

\* C28: when pipe or pipe_with returns Ok, the writer has received exactly
\* the bytes the reader produced up to end of stream, in order, none lost
\* and none twice, also when the writer accepts a part of a write
C28_PipeExact ==
    (pc = "done" /\ last.op \in {"pipe", "pipe_with"} /\ last.result = "ok")
        => write.got = StreamBytes(src.script)

\* the items an iterator returns before its first None
RECURSIVE FirstRun(_)
FirstRun(script) ==
    IF script = <<>> \/ Head(script) = NoItem THEN <<>>
    ELSE <<Head(script)>> \o FirstRun(Tail(script))

\* C29: for LEN > 0 the inner next is never called after it returned None,
\* the items yielded are the inner iterator's items before its first None,
\* in order, and once next has returned None it yields nothing more
C29_ActsLikeFuse ==
    iter.LEN > 0 =>
        /\ ~obs.late
        /\ Len(obs.yielded) <= Len(FirstRun(iter.iter.script))
        /\ obs.yielded =
              SubSeq(FirstRun(iter.iter.script), 1, Len(obs.yielded))
        /\ obs.nones > 0 =>
              (obs.fused /\ obs.yielded = FirstRun(iter.iter.script))
        /\ \A k \in 1..iter.LEN : (iter.buf[k] = Uninit) = (k > iter.len)

\* C29 witness: next has returned None twice after two items or more, over
\* an inner iterator that has an item left after its first None
C29_Witness ==
    /\ iter.LEN > 0
    /\ last.op = "next"
    /\ obs.nones = 2
    /\ Len(obs.yielded) >= 2
    /\ iter.len = 0
    /\ \E k \in (iter.iter.pos + 1)..Len(iter.iter.script) :
           iter.iter.script[k] # NoItem

\* C30: a push, push_str or write_fmt whose data does not fit in the space
\* left returns PushError and leaves len() and as_bytes() as they were; one
\* whose data fits returns Ok and as_bytes() is the old bytes followed by
\* the data
C30_RevertOrAppend ==
    (last.op \in {"push", "push_str", "write_fmt"}) =>
        IF Len(obs.bytes) + Len(obs.data) > StackCapacity
        THEN /\ ~obs.ok
             /\ last.reason = "PushError"
             /\ stack.len = Len(obs.bytes)
             /\ StackString_as_bytes(stack) = obs.bytes
        ELSE /\ obs.ok
             /\ StackString_as_bytes(stack) = obs.bytes \o obs.data

\* C30 witness: a call on a string that is neither empty nor full failed
\* after its writer had put a part of the data in the buffer
C30_Witness ==
    /\ last.op \in {"push", "push_str", "write_fmt"}
    /\ ~obs.ok
    /\ stack.len > 0
    /\ stack.len < StackCapacity
    /\ stack.buf[StackCapacity] = obs.data[StackCapacity - stack.len]

\* C30 witness of the other case: a call that filled the string to the
\* last byte
C30_WitnessFits ==
    /\ last.op \in {"push", "push_str", "write_fmt"}
    /\ obs.ok
    /\ obs.bytes # <<>>
    /\ obs.data # <<>>
    /\ stack.len = StackCapacity

\* the step is a push_str call of a non-empty str that has to reallocate and
\* whose growth size is one String::with_capacity accepts
ReallocatingPushStr ==
    /\ Len(given') = Len(given) + 1
    /\ given'[Len(given')].op = "push_str"
    /\ given'[Len(given')].s # <<>>
    /\ len + Len(given'[Len(given')].s) > capacity
    /\ 2 * PowerOfTwoFrom(1, capacity + Len(given'[Len(given')].s)) <= IsizeMax

\* C31: a push_str that has to reallocate returns, and the buffer then
\* holds the len bytes it held at offsets [0, len) and the n bytes given
\* right after them, at [len, len + n), for len = 0 and for len > 0
C31_ReallocKeepsBytes ==
    [][ReallocatingPushStr
       => (/\ last'.result = "ok"
           /\ buf' # 0
           /\ len' = len + Len(given'[Len(given')].s)
           /\ SubSeq(heap'[buf'].bytes, 1, len) = as_bytes(Self)
           /\ SubSeq(heap'[buf'].bytes, len + 1, len')
                = given'[Len(given')].s)]_vars

\* C32: a push_str that has to reallocate requests
\* 2 * nextPowerOfTwo(capacity + n) bytes, and the capacity after the call
\* is at least that and greater than the capacity before it
C32_GrowthSize ==
    [][ReallocatingPushStr
       => (/\ Len(heap') = Len(heap) + 1
           /\ heap'[Len(heap')].size =
                2 * PowerOfTwoFrom(1, capacity + Len(given'[Len(given')].s))
           /\ capacity' >= heap'[Len(heap')].size
           /\ capacity' > capacity)]_vars

\* the places of a reallocating push_str after drop(self)
AfterDropOld == {"set_buf", "set_len", "set_drop", "set_capacity", "forget"}

\* C33: in a reallocating push_str the destructor of the old allocation
\* runs only when the new allocation exists and holds the old bytes followed
\* by the appended ones, and at no place of the call after that does the
\* address field point to the released allocation
C33_DropAfterCopy ==
    /\ [][(pc = "drop_old" /\ heap' # heap)
           => (/\ NewString # buf
               /\ heap'[buf].dealloc = heap[buf].dealloc + 1
               /\ SubSeq(heap[NewString].bytes, 1, len + Len(CallStr))
                    = as_bytes(Self) \o CallStr)]_vars
    /\ [](pc \in AfterDropOld => (buf = 0 \/ heap[buf].dealloc = 0))

\* C34: a push_str that ends in a panic (the growth size overflows, the
\* allocation is refused, or a copy fails) leaves the address, the length,
\* the capacity and the destructor as they were before the call and every
\* earlier allocation as it was, unreleased; an allocation made by the call
\* has been released once, by the unwinding and not by a destructor
C34_AbnormalLeavesBuffer ==
    [][(/\ Len(given') = Len(given) + 1
        /\ given'[Len(given')].op = "push_str"
        /\ last'.result = "panic")
       => (/\ buf' = buf /\ len' = len /\ capacity' = capacity
           /\ drop' = drop
           /\ Len(heap') >= Len(heap)
           /\ \A i \in 1..Len(heap) : heap'[i] = heap[i]
           /\ \A i \in (Len(heap) + 1)..Len(heap') :
                /\ heap'[i].dealloc = 1
                /\ heap'[i].dtor = 0 /\ heap'[i].fdtor = 0
                /\ ~heap'[i].owned)]_vars

\* C34 witness: the copy of the appended bytes failed after the new
\* allocation was made and the old bytes were copied into it
C34_Witness ==
    /\ last.op = "push_str" /\ last.result = "panic"
    /\ last.reason = "slice"
    /\ len > 0 /\ buf = 1
    /\ Len(heap) = 2
    /\ heap[1].dealloc = 0
    /\ heap[2].dealloc = 1
    /\ SubSeq(heap[2].bytes, 1, len) = as_bytes(Self)

====
